---- MODULE Spec2Model ----
(***************************************************************************)
(* Model of the timeline front-end fragment of fluster_editor:             *)
(*   - the Layer function component (bottom_pane/timeline/layers.tsx)      *)
(*   - the BottomPaneContainer tab container (bottom_pane/container.tsx)   *)
(* The timeline store and the user are the environment: the store owns the *)
(* frame sequence and the visibility flag and (re-)renders the Layer with  *)
(* them; the user clicks on what is displayed.                             *)
(***************************************************************************)
EXTENDS Naturals, Sequences, FiniteSets

VARIABLES
    storeFrames,            \* the caller's FrameData[] array
    storeVisible,           \* the caller's visibility flag
    updateLayerVisibility,  \* "supplied" or "omitted": the callback prop
    mounted,                \* has Layer been rendered at least once
    props,                  \* frames / layerVisibility of the latest render
    displayed,              \* element tree returned by the latest render
    calls,                  \* arguments of the callback invocations, in order
    issued,                 \* values the user asked for by toggling, in order
    fault,                  \* an exception escaped a render or an event handler
    snapshot,               \* one remembered earlier render (args and output)
    tabs,                   \* state of the mounted Tabs of BottomPaneContainer
    clickedTab              \* id of the tab title the user clicked last

vars == <<storeFrames, storeVisible, updateLayerVisibility, mounted, props,
          displayed, calls, issued, fault, snapshot, tabs, clickedTab>>

\* ---- bounds ----
MaxFrames == 2
MaxClicks == 2

FrameIds == {"f1", "f2"}

FrameSeqs == UNION {[1..n -> FrameIds] : n \in 0..MaxFrames}

\* ---- layers.tsx ----

\* LayerProps: frames and layerVisibility (the callback is tracked apart).
LayerProps == [frames : FrameSeqs, layerVisibility : BOOLEAN]

\* A component that keeps the toggled value in local state.
LayerStateful(frames, layerVisibility) ==
    [header |-> <<[kind |-> "visibility", value |-> (Len(issued) % 2 = 0)]>>,
     body   |-> <<>>]

\* A component that always renders the first frame slot.
LayerFirstSlot(frames, layerVisibility) ==
    [header |-> <<>>,
     body   |-> IF frames = <<>> THEN <<[kind |-> "frame", frame |-> "undefined"]>>
                ELSE <<[kind |-> "frame", frame |-> frames[1]]>>]

\* Layer({ frames, layerVisibility }): a div holding two child divs, the
\* first for "label, visibility", the second for "render frames in layer";
\* both contain only a comment, so both have no children.
Layer(frames, layerVisibility) ==
    [header |-> <<>>, body |-> <<>>]

\* The visibility values shown by an element tree.
Indicator(out) ==
    {out.header[i].value : i \in {j \in DOMAIN out.header : out.header[j].kind = "visibility"}}

\* The frames shown by an element tree, in display order.
Presented(out) ==
    [i \in DOMAIN out.body |-> out.body[i].frame]

Reverse(s) == [i \in DOMAIN s |-> s[Len(s) + 1 - i]]

\* A render that reverses the caller's array in place.
RenderLayerMutating ==
    /\ mounted' = TRUE
    /\ props' = [frames |-> Reverse(storeFrames), layerVisibility |-> storeVisible]
    /\ displayed' = Layer(Reverse(storeFrames), storeVisible)
    /\ fault' = fault
    /\ storeFrames' = Reverse(storeFrames)
    /\ \E keep \in BOOLEAN :
           snapshot' = IF keep THEN <<[args |-> props', out |-> displayed']>>
                       ELSE snapshot
    /\ UNCHANGED <<storeVisible, updateLayerVisibility, calls, issued, tabs, clickedTab>>

\* The store mounts or re-renders Layer with its current frames and flag.
RenderLayer ==
    /\ mounted' = TRUE
    /\ props' = [frames |-> storeFrames, layerVisibility |-> storeVisible]
    /\ displayed' = Layer(storeFrames, storeVisible)
    /\ fault' = fault
    /\ \E keep \in BOOLEAN :
           snapshot' = IF keep THEN <<[args |-> props', out |-> displayed']>>
                       ELSE snapshot
    /\ UNCHANGED <<storeFrames, storeVisible, updateLayerVisibility, calls,
                   issued, tabs, clickedTab>>

\* A click handler that calls the callback without checking it exists.
ToggleVisibilityUnguarded ==
    /\ mounted
    /\ Len(issued) < MaxClicks
    /\ issued' = Append(issued, ~props.layerVisibility)
    /\ IF updateLayerVisibility = "supplied"
       THEN calls' = Append(calls, ~props.layerVisibility) /\ fault' = fault
       ELSE calls' = calls /\ fault' = TRUE
    /\ UNCHANGED <<storeFrames, storeVisible, updateLayerVisibility, mounted,
                   props, displayed, snapshot, tabs, clickedTab>>

\* The user clicks the panel to toggle visibility.  The rendered divs carry
\* no event handler and updateLayerVisibility is not even destructured, so
\* nothing in the program changes; only the user's request is on record.
ToggleVisibility ==
    /\ mounted
    /\ Len(issued) < MaxClicks
    /\ issued' = Append(issued, ~props.layerVisibility)
    /\ UNCHANGED <<storeFrames, storeVisible, updateLayerVisibility, mounted,
                   props, displayed, calls, fault, snapshot, tabs, clickedTab>>

\* ---- the timeline store (environment) ----

StoreSetFrames ==
    /\ \E fs \in FrameSeqs : fs # storeFrames /\ storeFrames' = fs
    /\ UNCHANGED <<storeVisible, updateLayerVisibility, mounted, props,
                   displayed, calls, issued, fault, snapshot, tabs, clickedTab>>

StoreSetVisibility ==
    /\ storeVisible' = ~storeVisible
    /\ UNCHANGED <<storeFrames, updateLayerVisibility, mounted, props,
                   displayed, calls, issued, fault, snapshot, tabs, clickedTab>>

\* ---- container.tsx ----

\* <Tab id="timeline" title="Timeline" panel={<Timeline />} />
TabChildren == <<[id |-> "timeline", title |-> "Timeline", panel |-> "Timeline"]>>

selectedTabIdTypo == "timelime"

\* selectedTabId="timeline"
selectedTabId == "timeline"

\* renderActiveTabPanelOnly={true}: only the selected tab's panel is rendered.
ActivePanels(sel) ==
    {TabChildren[i].panel : i \in {j \in DOMAIN TabChildren : TabChildren[j].id = sel}}

\* BottomPaneContainer(): Tabs is controlled, its state follows the prop.
RenderBottomPane ==
    /\ tabs' = <<[selectedTabId |-> selectedTabId, panels |-> ActivePanels(selectedTabId)]>>
    /\ UNCHANGED <<storeFrames, storeVisible, updateLayerVisibility, mounted,
                   props, displayed, calls, issued, fault, snapshot, clickedTab>>

\* The user clicks a tab title.  No onChange is passed and selectedTabId is
\* defined, so Tabs leaves its state alone and is re-rendered from the prop.
ClickTab ==
    /\ tabs # <<>>
    /\ \E i \in DOMAIN TabChildren : clickedTab' = <<TabChildren[i].id>>
    /\ tabs' = <<[selectedTabId |-> selectedTabId, panels |-> ActivePanels(selectedTabId)]>>
    /\ UNCHANGED <<storeFrames, storeVisible, updateLayerVisibility, mounted,
                   props, displayed, calls, issued, fault, snapshot>>

\* ---- specification ----

Init ==
    /\ storeFrames = <<>>
    /\ storeVisible \in BOOLEAN
    /\ updateLayerVisibility \in {"supplied", "omitted"}
    /\ mounted = FALSE
    /\ props = [frames |-> <<>>, layerVisibility |-> FALSE]
    /\ displayed = [header |-> <<>>, body |-> <<>>]
    /\ calls = <<>>
    /\ issued = <<>>
    /\ fault = FALSE
    /\ snapshot = <<>>
    /\ tabs = <<>>
    /\ clickedTab = <<>>

Next ==
    \/ RenderLayer
    \/ ToggleVisibility
    \/ StoreSetFrames
    \/ StoreSetVisibility
    \/ RenderBottomPane
    \/ ClickTab

Spec == Init /\ [][Next]_vars

\* ---- properties ----

\* C1: one toggle action with the callback supplied invokes the callback
\* exactly once, with the negation of the current layerVisibility prop.
C1_IntentRelay ==
    [][(ToggleVisibility /\ updateLayerVisibility = "supplied")
         => calls' = Append(calls, ~props.layerVisibility)]_vars

\* C2: every render of Layer shows a visibility indicator equal to the
\* layerVisibility passed to that render.
C2_VisibilityEcho ==
    [][RenderLayer => Indicator(displayed') = {storeVisible}]_vars

\* C3: in every reachable state the displayed visibility is the visible
\* value of the most recent render (a toggle alone never changes it).
C3_OneWayDataFlow ==
    mounted => Indicator(displayed) = {props.layerVisibility}

\* C4: a render with the same (frames, visible) as a remembered earlier
\* render yields the same output, whatever happened in between.
C4_Determinism ==
    (mounted /\ snapshot # <<>> /\ snapshot[1].args = props)
        => snapshot[1].out = displayed

C4_Witness ==
    /\ mounted
    /\ snapshot # <<>>
    /\ snapshot[1].args = props
    /\ snapshot[1].args.frames # <<>>
    /\ Len(issued) = MaxClicks
    /\ storeVisible # props.layerVisibility

\* C5: rendering leaves the caller's frames sequence as it was: same length,
\* same order, same elements.
C5_NoMutation ==
    [][RenderLayer => storeFrames' = storeFrames]_vars

C5_Witness ==
    /\ mounted
    /\ Len(props.frames) >= 2
    /\ props.frames[1] # props.frames[2]
    /\ storeFrames = props.frames

\* C6: with the callback omitted, a toggle raises no error and leaves what
\* the panel displays unchanged; no fault state is ever reached.
C6_MissingCallbackTolerance ==
    /\ [](updateLayerVisibility = "omitted" => ~fault)
    /\ [][(ToggleVisibility /\ updateLayerVisibility = "omitted")
            => (displayed' = displayed /\ ~fault')]_vars

C6_Witness ==
    /\ updateLayerVisibility = "omitted"
    /\ mounted
    /\ Len(issued) = MaxClicks
    /\ ~fault

\* C7: a render with frames = [] succeeds and shows zero frame entries.
C7_EmptyInput ==
    (mounted /\ props.frames = <<>>) => (~fault /\ Len(displayed.body) = 0)

C7_Witness ==
    /\ mounted
    /\ props.frames = <<>>
    /\ props.layerVisibility
    /\ snapshot # <<>>
    /\ snapshot[1].args.frames = <<>>
    /\ ~snapshot[1].args.layerVisibility
    /\ Len(snapshot[1].out.body) = 0

\* C8: the intents reach the store, as callback invocations, in the order
\* in which the user issued the toggles.
C8_IntentOrdering ==
    updateLayerVisibility = "supplied" => calls = issued

\* C9: the frames the panel presents are the store's frame sequence of the
\* latest render, one entry per frame, in the same order.
C9_FrameSequenceStability ==
    mounted => Presented(displayed) = props.frames

\* C10: once BottomPaneContainer is rendered, the selected tab is "timeline"
\* and the only rendered panel is the Timeline, whatever tab was clicked.
C10_TimelineSelected ==
    tabs # <<>> => (tabs[1].selectedTabId = "timeline" /\ tabs[1].panels = {"Timeline"})

C10_Witness ==
    /\ tabs # <<>>
    /\ clickedTab # <<>>
    /\ tabs[1].panels = {"Timeline"}

====
